---- MODULE Spec2Model ----
(***************************************************************************)
(* Model of utils.py: the calendar helpers (Easter computus, third Friday, *)
(* SPX monthly expiration, VIX monthly settlement), the settlement rolling *)
(* functions and the two row-annotation functions.                         *)
(*                                                                         *)
(* A pd.Timestamp is modelled as an integer count of ticks since the       *)
(* proleptic Gregorian ordinal 0 (ordinal 1 = 0001-01-01, a Monday), with  *)
(* TicksPerDay ticks per calendar day; a pd.Timedelta is a count of ticks. *)
(***************************************************************************)
EXTENDS Integers, Sequences, FiniteSets, TLC

\* ---------------------------------------------------------------- bounds
MinYear == 2000
MaxYear == 2100
RefMinYear == 2010
RefMaxYear == 2030
TableYear == 2019
TableDays == 120
TicksPerDay == 2
MaxRows == 2

Years == MinYear..MaxYear
Months == 1..12
BadMonths == {0, 13}

\* ------------------------------------------------- pandas date arithmetic
\* Value standing for the ValueError raised by pd.Timestamp(year=, month=, day=)
ValueError == -1

IsLeap(y) == (y % 4 = 0) /\ ((y % 100 # 0) \/ (y % 400 = 0))

DaysInMonth(y, m) ==
    IF m = 2 THEN (IF IsLeap(y) THEN 29 ELSE 28)
    ELSE IF m \in {4, 6, 9, 11} THEN 30 ELSE 31

DaysBeforeMonth(y, m) ==
    LET cum == <<0, 31, 59, 90, 120, 151, 181, 212, 243, 273, 304, 334>>
    IN cum[m] + (IF m > 2 /\ IsLeap(y) THEN 1 ELSE 0)

DaysBeforeYear(y) ==
    LET p == y - 1 IN p * 365 + (p \div 4) - (p \div 100) + (p \div 400)

\* pd.Timestamp(year=, month=, day=): midnight of that day, or ValueError
Timestamp(y, m, d) ==
    IF m \notin 1..12 THEN ValueError
    ELSE IF d \notin 1..DaysInMonth(y, m) THEN ValueError
    ELSE (DaysBeforeYear(y) + DaysBeforeMonth(y, m) + d) * TicksPerDay

\* pd.Timedelta(days=k)
Timedelta(k) == k * TicksPerDay

\* Timestamp.normalize(): drop the time of day
normalize(t) == (t \div TicksPerDay) * TicksPerDay

Ordinal(t) == t \div TicksPerDay

\* Timestamp.weekday(): Monday = 0 ... Sunday = 6
weekday(t) == (Ordinal(t) + 6) % 7

\* Civil (year, month, day) of an ordinal
Civil(n) ==
    LET n0   == n - 1
        n400 == n0 \div 146097
        r400 == n0 % 146097
        n100 == r400 \div 36524
        r100 == r400 % 36524
        n4   == r100 \div 1461
        r4   == r100 % 1461
        n1   == r4 \div 365
        r1   == r4 % 365
        y0   == n400 * 400 + 1 + n100 * 100 + n4 * 4 + n1
    IN IF n1 = 4 \/ n100 = 4
       THEN [year |-> y0 - 1, month |-> 12, day |-> 31]
       ELSE LET m0 == CHOOSE m \in 1..12 :
                         /\ DaysBeforeMonth(y0, m) <= r1
                         /\ r1 < DaysBeforeMonth(y0, m) + DaysInMonth(y0, m)
            IN [year |-> y0, month |-> m0, day |-> r1 - DaysBeforeMonth(y0, m0) + 1]

\* Timestamp.year, Timestamp.month
YearOf(t) == Civil(Ordinal(t)).year
MonthOf(t) == Civil(Ordinal(t)).month

\* Timedelta.days: whole days, floored
TdDays(delta) == delta \div TicksPerDay

\* np.ceil(delta / pd.Timedelta(days=1)).astype(int)
TdCeilDays(delta) == 0 - ((0 - delta) \div TicksPerDay)

\* ------------------------------------------------------ calendar helpers
\* easter_date without the (a + 11h + 22l) // 451 correction term
easter_date_noCorrection(year) ==
    LET a == year % 19
        b == year \div 100
        c == year % 100
        d == b \div 4
        e == b % 4
        f == (b + 8) \div 25
        g == (b - f + 1) \div 3
        h == (19 * a + b - d - g + 15) % 30
        i == c \div 4
        k == c % 4
        l == (32 + 2 * e + 2 * i - h - k) % 7
        month == (h + l + 114) \div 31
        day == ((h + l + 114) % 31) + 1
    IN Timestamp(year, month, day)

easter_date(year) ==
    LET a == year % 19
        b == year \div 100
        c == year % 100
        d == b \div 4
        e == b % 4
        f == (b + 8) \div 25
        g == (b - f + 1) \div 3
        h == (19 * a + b - d - g + 15) % 30
        i == c \div 4
        k == c % 4
        l == (32 + 2 * e + 2 * i - h - k) % 7
        m == (a + 11 * h + 22 * l) \div 451
        month == (h + l - 7 * m + 114) \div 31
        day == ((h + l - 7 * m + 114) % 31) + 1
    IN Timestamp(year, month, day)

good_friday(year) == easter_date(year) - Timedelta(2)

third_friday(year, month) ==
    LET first == Timestamp(year, month, 1)
    IN IF first = ValueError THEN ValueError
       ELSE LET offset == (4 - weekday(first)) % 7
            IN first + Timedelta(offset + 14)

\* spx_monthly_expiration without the Good Friday shift
spx_monthly_expiration_noHoliday(year, month) == third_friday(year, month)

spx_monthly_expiration(year, month) ==
    LET tf == third_friday(year, month)
        gf == good_friday(year)
    IN IF tf = ValueError THEN ValueError
       ELSE IF normalize(tf) = normalize(gf) THEN tf - Timedelta(1)
       ELSE tf

\* vix_monthly_settlement_for_month that forgets the year when wrapping December
vix_monthly_settlement_for_month_noYearWrap(year, month) ==
    LET m2 == IF month = 12 THEN 1 ELSE month + 1
        spx_exp_next == spx_monthly_expiration(year, m2)
    IN IF spx_exp_next = ValueError THEN ValueError
       ELSE spx_exp_next - Timedelta(30)

vix_monthly_settlement_for_month(year, month) ==
    LET y2 == IF month = 12 THEN year + 1 ELSE year
        m2 == IF month = 12 THEN 1 ELSE month + 1
        spx_exp_next == spx_monthly_expiration(y2, m2)
    IN IF spx_exp_next = ValueError THEN ValueError
       ELSE spx_exp_next - Timedelta(30)

\* next_vix_monthly_settlement that also rolls on the settlement day itself
next_vix_monthly_settlement_rollOnEqual(ts) ==
    LET ts_year == YearOf(ts)
        ts_month == MonthOf(ts)
        cand == vix_monthly_settlement_for_month(ts_year, ts_month)
    IN IF normalize(ts) >= normalize(cand)
       THEN LET y == IF ts_month = 12 THEN ts_year + 1 ELSE ts_year
                m == IF ts_month = 12 THEN 1 ELSE ts_month + 1
            IN vix_monthly_settlement_for_month(y, m)
       ELSE cand

next_vix_monthly_settlement(ts) ==
    LET ts_year == YearOf(ts)
        ts_month == MonthOf(ts)
        cand == vix_monthly_settlement_for_month(ts_year, ts_month)
    IN IF normalize(ts) > normalize(cand)
       THEN LET y == IF ts_month = 12 THEN ts_year + 1 ELSE ts_year
                m == IF ts_month = 12 THEN 1 ELSE ts_month + 1
            IN vix_monthly_settlement_for_month(y, m)
       ELSE cand

\* next_two_vix_settlements comparing the raw timestamp, not the day
next_two_vix_settlements_rawCompare(ts) ==
    LET ts_year == YearOf(ts)
        ts_month == MonthOf(ts)
        first0 == vix_monthly_settlement_for_month(ts_year, ts_month)
        y == IF ts_month = 12 THEN ts_year + 1 ELSE ts_year
        m == IF ts_month = 12 THEN 1 ELSE ts_month + 1
    IN IF ts > first0
       THEN LET y2 == IF m = 12 THEN y + 1 ELSE y
                m2 == IF m = 12 THEN 1 ELSE m + 1
            IN <<vix_monthly_settlement_for_month(y, m),
                 vix_monthly_settlement_for_month(y2, m2)>>
       ELSE <<first0, vix_monthly_settlement_for_month(y, m)>>

\* next_two_vix_settlements whose rolled branch does not advance the second month
next_two_vix_settlements_sameSecond(ts) ==
    LET ts_year == YearOf(ts)
        ts_month == MonthOf(ts)
        first0 == vix_monthly_settlement_for_month(ts_year, ts_month)
        y == IF ts_month = 12 THEN ts_year + 1 ELSE ts_year
        m == IF ts_month = 12 THEN 1 ELSE ts_month + 1
    IN IF normalize(ts) > normalize(first0)
       THEN <<vix_monthly_settlement_for_month(y, m),
              vix_monthly_settlement_for_month(y, m)>>
       ELSE <<first0, vix_monthly_settlement_for_month(y, m)>>

next_two_vix_settlements(ts) ==
    LET ts_year == YearOf(ts)
        ts_month == MonthOf(ts)
        first0 == vix_monthly_settlement_for_month(ts_year, ts_month)
        y == IF ts_month = 12 THEN ts_year + 1 ELSE ts_year
        m == IF ts_month = 12 THEN 1 ELSE ts_month + 1
    IN IF normalize(ts) > normalize(first0)
       THEN LET y2 == IF m = 12 THEN y + 1 ELSE y
                m2 == IF m = 12 THEN 1 ELSE m + 1
            IN <<vix_monthly_settlement_for_month(y, m),
                 vix_monthly_settlement_for_month(y2, m2)>>
       ELSE <<first0, vix_monthly_settlement_for_month(y, m)>>

\* ------------------------------------------------------- row annotation
\* A table: its index (one Timestamp per row) and its columns by name.
\* df[name] = vals
SetCol(df, name, vals) == [df EXCEPT !.cols = (name :> vals) @@ @]

\* df.drop(columns=drop, inplace=True)
DropCols(df, drop) ==
    LET old == df.cols
    IN [df EXCEPT !.cols = [c \in (DOMAIN old) \ drop |-> old[c]]]

\* Body of add_vix_next_expiration, given the per-row result of
\* df.index.to_series().apply(next_vix_monthly_settlement)
vix_next_expiration_columns(df, col_name, settlement) ==
    LET cols_initial == DOMAIN df.cols
        index == df.index
        floor_days == [i \in 1..Len(index) |-> TdDays(settlement[i] - normalize(index[i]))]
        df1 == SetCol(df, "days_to_next_vix_exp", floor_days)
        delta == [i \in 1..Len(index) |-> settlement[i] - index[i]]
        df2 == SetCol(df1, "days_to_next_vix_exp_ceil",
                      [i \in 1..Len(index) |-> TdCeilDays(delta[i])])
        name == IF col_name = "" THEN "next_vix_expiration_date" ELSE col_name
        cols_kept == cols_initial \cup {name}
        df3 == SetCol(df2, name, settlement)
        cols_to_drop == (DOMAIN df3.cols) \ cols_kept
    IN DropCols(df3, cols_to_drop)

add_vix_next_expiration(df, col_name) ==
    vix_next_expiration_columns(df, col_name,
        [i \in 1..Len(df.index) |-> next_vix_monthly_settlement(df.index[i])])

\* next_two_expiries_columns counting the first expiry from the normalized
\* index and the second from the raw index
next_two_expiries_columns_mixedIndex(df, remove_dates, two) ==
    LET index == df.index
        next_vix_exp == [i \in 1..Len(index) |-> two[i][1]]
        second_vix_exp == [i \in 1..Len(index) |-> two[i][2]]
        df1 == SetCol(SetCol(df, "next_vix_exp", next_vix_exp),
                      "second_vix_exp", second_vix_exp)
        days_to_first_exp ==
            [i \in 1..Len(index) |-> TdDays(next_vix_exp[i] - normalize(index[i]))]
        df2 == SetCol(df1, "days_to_first_exp", days_to_first_exp)
        days_to_second_exp == [i \in 1..Len(index) |-> TdDays(second_vix_exp[i] - index[i])]
        df3 == SetCol(df2, "days_to_second_exp", days_to_second_exp)
        df4 == SetCol(df3, "duration_second_fut",
                      [i \in 1..Len(index) |-> days_to_second_exp[i] - days_to_first_exp[i]])
    IN IF remove_dates THEN DropCols(df4, {"next_vix_exp", "second_vix_exp"})
       ELSE df4

\* Body of add_days_to_next_two_expiries, given the per-row result of
\* df.index.to_series().apply(next_two_vix_settlements)
next_two_expiries_columns(df, remove_dates, two) ==
    LET index == df.index
        next_vix_exp == [i \in 1..Len(index) |-> two[i][1]]
        second_vix_exp == [i \in 1..Len(index) |-> two[i][2]]
        df1 == SetCol(SetCol(df, "next_vix_exp", next_vix_exp),
                      "second_vix_exp", second_vix_exp)
        days_to_first_exp == [i \in 1..Len(index) |-> TdDays(next_vix_exp[i] - index[i])]
        df2 == SetCol(df1, "days_to_first_exp", days_to_first_exp)
        days_to_second_exp == [i \in 1..Len(index) |-> TdDays(second_vix_exp[i] - index[i])]
        df3 == SetCol(df2, "days_to_second_exp", days_to_second_exp)
        df4 == SetCol(df3, "duration_second_fut",
                      [i \in 1..Len(index) |-> days_to_second_exp[i] - days_to_first_exp[i]])
    IN IF remove_dates THEN DropCols(df4, {"next_vix_exp", "second_vix_exp"})
       ELSE df4

add_days_to_next_two_expiries(df, remove_dates) ==
    next_two_expiries_columns(df, remove_dates,
        [i \in 1..Len(df.index) |-> next_two_vix_settlements(df.index[i])])

\* ----------------------------------------------------------- the inputs
\* Reference timestamps: every tick of every day of the reference years
RefTimestamps ==
    (Timestamp(RefMinYear, 1, 1))..(Timestamp(RefMaxYear, 12, 31) + TicksPerDay - 1)

\* Tables handed to the annotation functions: a daily series starting at
\* some tick of the first TableDays days of TableYear, with a data column
\* and possibly a stale day-count column
TableStarts ==
    (Timestamp(TableYear, 1, 1))..(Timestamp(TableYear, 1, 1) + Timedelta(TableDays) - 1)

DailyIndex(start, n) == [i \in 1..n |-> start + Timedelta(i - 1)]

InitialColumns == {{"vix"}, {"vix", "days_to_next_vix_exp"}}

ColNames == {"", "vix_exp"}

EmptyTable == [index |-> <<>>, cols |-> [c \in {} |-> <<>>]]

\* ------------------------------------------------------ the state machine
VARIABLES op, year, month, ts, ret, raised, df

vars == <<op, year, month, ts, ret, raised, df>>

Init ==
    /\ op = "init"
    /\ year = 0
    /\ month = 0
    /\ ts = 0
    /\ ret = <<>>
    /\ raised = FALSE
    /\ df = EmptyTable

\* One call of a date function, recording its arguments and what it returned
\* or that it raised. Each behaviour makes one such call from the idle state.
Return(name, y, m, t, value) ==
    /\ op' = name
    /\ year' = y
    /\ month' = m
    /\ ts' = t
    /\ raised' = (value = ValueError)
    /\ ret' = IF value = ValueError THEN <<>> ELSE <<value>>
    /\ UNCHANGED df

Call_easter_date ==
    /\ op = "init"
    /\ \E y \in Years : Return("easter_date", y, 0, 0, easter_date(y))

Call_good_friday ==
    /\ op = "init"
    /\ \E y \in Years : Return("good_friday", y, 0, 0, good_friday(y))

Call_third_friday ==
    /\ op = "init"
    /\ \E y \in Years, m \in Months \cup BadMonths :
           Return("third_friday", y, m, 0, third_friday(y, m))

Call_spx_monthly_expiration ==
    /\ op = "init"
    /\ \E y \in Years, m \in Months \cup BadMonths :
           Return("spx_monthly_expiration", y, m, 0, spx_monthly_expiration(y, m))

Call_vix_monthly_settlement_for_month ==
    /\ op = "init"
    /\ \E y \in Years, m \in Months \cup BadMonths :
           Return("vix_monthly_settlement_for_month", y, m, 0,
                  vix_monthly_settlement_for_month(y, m))

Call_next_vix_monthly_settlement ==
    /\ op = "init"
    /\ \E t \in RefTimestamps :
           Return("next_vix_monthly_settlement", 0, 0, t, next_vix_monthly_settlement(t))

Call_next_two_vix_settlements ==
    /\ op = "init"
    /\ \E t \in RefTimestamps :
           /\ op' = "next_two_vix_settlements"
           /\ year' = 0
           /\ month' = 0
           /\ ts' = t
           /\ raised' = FALSE
           /\ ret' = next_two_vix_settlements(t)
           /\ UNCHANGED df

\* The caller builds the date-indexed table the annotation functions receive
NewTable ==
    /\ op = "init"
    /\ \E start \in TableStarts, n \in 1..MaxRows, cs \in InitialColumns :
           /\ op' = "new_table"
           /\ df' = [index |-> DailyIndex(start, n),
                     cols |-> [c \in cs |-> [i \in 1..n |-> 0]]]
           /\ year' = 0
           /\ month' = 0
           /\ ts' = 0
           /\ ret' = <<>>
           /\ raised' = FALSE

Call_add_vix_next_expiration ==
    /\ Len(df.index) > 0
    /\ \E col_name \in ColNames :
        /\ df' = add_vix_next_expiration(df, col_name)
        /\ op' = "add_vix_next_expiration"
    /\ year' = 0
    /\ month' = 0
    /\ ts' = 0
    /\ ret' = <<>>
    /\ raised' = FALSE

Call_add_days_to_next_two_expiries ==
    /\ Len(df.index) > 0
    /\ \E remove_dates \in BOOLEAN :
        /\ df' = add_days_to_next_two_expiries(df, remove_dates)
        /\ op' = "add_days_to_next_two_expiries"
    /\ year' = 0
    /\ month' = 0
    /\ ts' = 0
    /\ ret' = <<>>
    /\ raised' = FALSE

Next ==
    \/ Call_easter_date
    \/ Call_good_friday
    \/ Call_third_friday
    \/ Call_spx_monthly_expiration
    \/ Call_vix_monthly_settlement_for_month
    \/ Call_next_vix_monthly_settlement
    \/ Call_next_two_vix_settlements
    \/ NewTable
    \/ Call_add_vix_next_expiration
    \/ Call_add_days_to_next_two_expiries

Spec == Init /\ [][Next]_vars

\* ---------------------------------------------------------- properties
NextYear(y, m) == IF m = 12 THEN y + 1 ELSE y
NextMonth(m) == IF m = 12 THEN 1 ELSE m + 1

\* the reference timestamp falls on the settlement day of its own month
OnSettlementDay(t) ==
    normalize(t) = vix_monthly_settlement_for_month(YearOf(t), MonthOf(t))

HasTimeOfDay(t) == t # normalize(t)

\* C1: next_vix_monthly_settlement(d) is on or after d at day granularity, and
\* when d's day is the settlement day of d's own month the result is that day.
C1_NextSettlementOnOrAfter ==
    op = "next_vix_monthly_settlement" =>
        /\ ~raised
        /\ normalize(ret[1]) >= normalize(ts)
        /\ OnSettlementDay(ts) => ret[1] = normalize(ts)

\* C1 witness: a reference timestamp with a time of day, on a settlement day,
\* for which the same day came back
C1_Witness ==
    /\ op = "next_vix_monthly_settlement"
    /\ HasTimeOfDay(ts)
    /\ OnSettlementDay(ts)
    /\ ret = <<normalize(ts)>>

\* C2: the first element of next_two_vix_settlements(d) equals
\* next_vix_monthly_settlement(d).
C2_FirstOfTwoIsNext ==
    op = "next_two_vix_settlements" => ret[1] = next_vix_monthly_settlement(ts)

\* C2 witness: a settlement day carrying a time of day, in December
C2_Witness ==
    /\ op = "next_two_vix_settlements"
    /\ MonthOf(ts) = 12
    /\ HasTimeOfDay(ts)
    /\ OnSettlementDay(ts)
    /\ ret[1] = normalize(ts)

\* C3: next_two_vix_settlements(d) returns the settlement of some (year, month)
\* and the settlement of the immediately following (year, month), the second
\* strictly later than the first.
C3_TwoConsecutiveSettlements ==
    op = "next_two_vix_settlements" =>
        LET y == YearOf(ret[1])
            m == MonthOf(ret[1])
        IN /\ Len(ret) = 2
           /\ ret[1] = vix_monthly_settlement_for_month(y, m)
           /\ ret[2] = vix_monthly_settlement_for_month(NextYear(y, m), NextMonth(m))
           /\ ret[2] > ret[1]

\* C3 witness: the current month's settlement has passed in November, so the
\* pair is December's settlement and January's of the next year
C3_Witness ==
    /\ op = "next_two_vix_settlements"
    /\ MonthOf(ts) = 11
    /\ normalize(ts) > vix_monthly_settlement_for_month(YearOf(ts), 11)
    /\ MonthOf(ret[1]) = 12
    /\ MonthOf(ret[2]) = 1
    /\ YearOf(ret[2]) = YearOf(ts) + 1

\* C4: spx_monthly_expiration(y, m) is third_friday(y, m), a Friday, unless that
\* day is good_friday(y); then it is the day before, a Thursday.
C4_ExpirationRule ==
    (op = "spx_monthly_expiration" /\ month \in Months) =>
        LET tf == third_friday(year, month)
        IN /\ ~raised
           /\ IF normalize(tf) = normalize(good_friday(year))
              THEN ret[1] = tf - Timedelta(1) /\ weekday(ret[1]) = 3
              ELSE ret[1] = tf /\ weekday(ret[1]) = 4

\* C4 witness: a month whose third Friday is Good Friday
C4_Witness ==
    /\ op = "spx_monthly_expiration"
    /\ month \in Months
    /\ third_friday(year, month) = good_friday(year)
    /\ weekday(ret[1]) = 3

\* C5: vix_monthly_settlement_for_month(year, month) is the following month's
\* SPX expiration minus 30 days and lies inside (year, month) itself.
C5_SettlementInOwnMonth ==
    (op = "vix_monthly_settlement_for_month" /\ month \in Months) =>
        /\ ~raised
        /\ ret[1] = spx_monthly_expiration(NextYear(year, month), NextMonth(month))
                      - Timedelta(30)
        /\ YearOf(ret[1]) = year
        /\ MonthOf(ret[1]) = month

\* C5 witness: December, whose following expiration is January of the next year
C5_Witness ==
    /\ op = "vix_monthly_settlement_for_month"
    /\ month = 12
    /\ ret = <<spx_monthly_expiration(year + 1, 1) - Timedelta(30)>>
    /\ MonthOf(ret[1]) = 12

\* C6: for the years considered easter_date(y) falls within March 22 to April 25
\* of year y, and good_friday(y) is 2 calendar days before easter_date(y).
C6_EasterRange ==
    /\ op = "easter_date" =>
           /\ ~raised
           /\ Timestamp(year, 3, 22) <= ret[1]
           /\ ret[1] <= Timestamp(year, 4, 25)
    /\ op = "good_friday" =>
           /\ ret[1] + Timedelta(2) = easter_date(year)
           /\ Timestamp(year, 3, 20) <= ret[1]
           /\ ret[1] <= Timestamp(year, 4, 23)

\* C6 witness: Good Friday of 2024 is 2024-03-29
C6_Witness ==
    /\ op = "good_friday"
    /\ year = 2024
    /\ ret = <<Timestamp(2024, 3, 29)>>

DayColumns == {"days_to_next_vix_exp", "days_to_next_vix_exp_ceil"}
DateColumns == {"next_vix_expiration_date", "vix_exp"}

\* C7: for a table that does not already contain them, add_vix_next_expiration
\* returns the table with the settlement date column and both day-count
\* columns present.
C7_ThreeColumnsAdded ==
    [][(op' = "add_vix_next_expiration" /\ DayColumns \cap DOMAIN df.cols = {}) =>
          /\ DayColumns \subseteq DOMAIN df'.cols
          /\ DateColumns \cap DOMAIN df'.cols # {}]_vars

\* calendar span between the two settlements next_two_vix_settlements returns
Span(t) ==
    LET two == next_two_vix_settlements(t) IN TdDays(two[2] - two[1])

DurationIsSpan ==
    "duration_second_fut" \in DOMAIN df.cols =>
        \A i \in 1..Len(df.index) :
            /\ df.cols["duration_second_fut"][i] > 0
            /\ df.cols["duration_second_fut"][i] = Span(df.index[i])

\* C8 as stated: duration_second_fut is a positive integer equal to the calendar
\* span between the two returned settlements, and the span is 28 to 31 days.
C8_DurationWithin28To31 ==
    /\ DurationIsSpan
    /\ "duration_second_fut" \in DOMAIN df.cols =>
           \A i \in 1..Len(df.index) : df.cols["duration_second_fut"][i] \in 28..31

\* C8 amended: duration_second_fut is a positive integer equal to the calendar
\* span between the two returned settlements, and the span is 27 to 36 days.
C8_DurationWithin27To36 ==
    /\ DurationIsSpan
    /\ "duration_second_fut" \in DOMAIN df.cols =>
           \A i \in 1..Len(df.index) : df.cols["duration_second_fut"][i] \in 27..36
    /\ op = "next_two_vix_settlements" => TdDays(ret[2] - ret[1]) \in 27..36

\* C8 witness: a row with a time of day whose two settlements are 35 days apart
C8_Witness ==
    /\ "duration_second_fut" \in DOMAIN df.cols
    /\ \E i \in 1..Len(df.index) :
           /\ HasTimeOfDay(df.index[i])
           /\ df.cols["duration_second_fut"][i] = 35

\* C9: for a month outside 1..12, third_friday, spx_monthly_expiration and
\* vix_monthly_settlement_for_month fail with an error.
C9_BadMonthRaises ==
    (/\ op \in {"third_friday", "spx_monthly_expiration",
                "vix_monthly_settlement_for_month"}
     /\ month \notin Months) => raised

\* C10: days_to_first_exp and days_to_second_exp are non-negative in every row.
C10_DaysNonNegative ==
    "days_to_first_exp" \in DOMAIN df.cols =>
        \A i \in 1..Len(df.index) :
            /\ df.cols["days_to_first_exp"][i] >= 0
            /\ df.cols["days_to_second_exp"][i] >= 0

====
